---------------------------- MODULE Spec2Model ----------------------------
(***************************************************************************)
(* The automation engine of src/automations.py as a state machine.         *)
(*                                                                         *)
(* The program is single-threaded cooperative (asyncio): a coroutine runs  *)
(* until it awaits I/O.  The variable cur holds the coroutine that is      *)
(* running; "none" means every coroutine is suspended.  The suspension     *)
(* points of the code are the awaited HTTP call of a remote handler, the   *)
(* awaited HTTP call of _store_result and asyncio.sleep of the loop.       *)
(* Two coroutines are modelled: "loop" (start_automation_loop) and "api"   *)
(* (one caller of execute_automation, handle_webhook or check_thresholds). *)
(*                                                                         *)
(* Automation objects live in heap (a Python object is a reference: a      *)
(* coroutine that holds an Automation keeps it after register() replaced   *)
(* it in the dict).  automations is the engine's dict, as the sequence of  *)
(* its values in insertion order; the key of a value o is heap[o].id.      *)
(*                                                                         *)
(* Time is in hours (datetime.now() is the variable clock).  Metric values *)
(* and thresholds are integers; conversion_rate is counted in hundredths   *)
(* (0.02 is 2).  The fields name, level and ai_providers of an Automation  *)
(* are only printed or stored, and are left out.                           *)
(*                                                                         *)
(* Three specifications: SpecApi is the engine behind ProductAutomationAPI *)
(* and the CLI's run command (the loop is never started there), SpecLoop   *)
(* is the CLI's start command (only the loop uses the engine), and Spec    *)
(* has both on one engine.                                                 *)
(***************************************************************************)
EXTENDS Integers, Sequences, FiniteSets, TLC

\* ------------------------------------------------------------------ bounds
\* The clock advances at most MaxTicks times, by ClockStep hours each.
MaxTicks == 2
\* The api coroutine makes at most MaxOps calls (register() included).
MaxOps == 2
\* The loop starts at most MaxCycles cycles.
MaxCycles == 2

\* Hours the clock advances in one step of the model.
ClockStep == 3

\* ------------------------------------------------------------- data model
\* Python's None for an optional number (last_run, a missing config key).
None == 0 - 1
\* A key that a trigger_config does not hold.
NoKey == "<absent>"

SCHEDULED == "scheduled"
EVENT == "event"
THRESHOLD == "threshold"
MANUAL == "manual"

\* trigger_config as a record of the four keys the engine reads.
ScheduledConfig(h) ==
    [interval_hours |-> h, event |-> NoKey, metric |-> NoKey, threshold |-> None]
EventConfig(e) ==
    [interval_hours |-> None, event |-> e, metric |-> NoKey, threshold |-> None]
ThresholdConfig(m, th) ==
    [interval_hours |-> None, event |-> NoKey, metric |-> m, threshold |-> th]
ManualConfig ==
    [interval_hours |-> None, event |-> NoKey, metric |-> NoKey, threshold |-> None]

\* The dataclass Automation: enabled, last_run and run_count have defaults.
Automation(id, trigger, config, action, enabled) ==
    [id |-> id, trigger |-> trigger, trigger_config |-> config, action |-> action,
     enabled |-> enabled, last_run |-> None, run_count |-> 0]

\* Built-in definitions registered by the constructor, in registration order:
\* one per trigger kind and handler kind of the twelve of the source.
DefaultAutomations ==
    << Automation("trend_detection", SCHEDULED, ScheduledConfig(6),
                  "detect_trends", TRUE),
       Automation("template_generation", EVENT, EventConfig("opportunity_discovered"),
                  "generate_template_product", TRUE),
       Automation("saas_feature_builder", MANUAL, ManualConfig,
                  "build_saas_feature", TRUE),
       Automation("pricing_optimizer", THRESHOLD, ThresholdConfig("conversion_rate", 2),
                  "optimize_pricing", TRUE),
       Automation("copy_optimizer", SCHEDULED, ScheduledConfig(72),
                  "optimize_copy", TRUE),
       Automation("product_cloner", THRESHOLD, ThresholdConfig("product_sales", 100),
                  "clone_successful_product", TRUE) >>

\* Handlers of the dispatch table that await the remote agent service.
HttpActions ==
    {"discover_market_gaps", "analyze_competitors", "detect_trends",
     "generate_template_product", "create_content", "optimize_pricing"}
\* Handlers of the dispatch table that return a static acknowledgement.
StaticActions ==
    {"build_saas_feature", "optimize_copy", "enhance_features",
     "expand_to_new_markets", "clone_successful_product", "create_affiliate_program"}
\* action_handlers of _run_action.
action_handlers == HttpActions \cup StaticActions

\* Results returned to callers.  The three errors of execute_automation and
\* _run_action are dicts with the key "error"; a remote handler returns the
\* decoded body of the response, which is a success payload or carries an
\* error indicator.
NotFound == [error |-> "not found"]
Disabled == [error |-> "is disabled"]
UnknownAction == [error |-> "Unknown action"]
HandlerError == [error |-> "agent error"]
Ok == [error |-> NoKey]
NoResult == [error |-> "<no result>"]

\* ----------------------------------------------------------------- inputs
\* Definitions a caller passes to register(): a disabled second definition
\* on the event of a built-in one, a definition whose action is not in the
\* dispatch table, an override of a built-in Scheduled definition, and a
\* disabled override of a built-in Threshold definition.
RegisterInputs ==
    { Automation("feature_enhancer", EVENT, EventConfig("opportunity_discovered"),
                 "enhance_features", FALSE),
      Automation("custom_report", MANUAL, ManualConfig, "generate_report", TRUE),
      Automation("trend_detection", SCHEDULED, ScheduledConfig(3), "optimize_copy", TRUE),
      Automation("product_cloner", THRESHOLD, ThresholdConfig("product_sales", 100),
                 "clone_successful_product", FALSE) }

\* Ids a caller passes to execute_automation(): a remote handler, a static
\* one, an id that is unknown until it is registered with an action the
\* dispatch table does not hold, and an id whose override is disabled.
ExecuteInputs ==
    {"trend_detection", "saas_feature_builder", "custom_report", "product_cloner"}

\* Event types a caller passes to handle_webhook().
EventInputs == {"opportunity_discovered", "customer_feedback_received"}

\* Metrics a caller passes to check_thresholds(): both at the threshold; one
\* below and one above; one above and the other missing.
NoMetrics == [m \in {} |-> 0]
MetricsInputs ==
    { [conversion_rate |-> 2, product_sales |-> 100],
      [conversion_rate |-> 1, product_sales |-> 101],
      [conversion_rate |-> 3] }

\* ------------------------------------------------------------------ state
VARIABLES
    clock,        \* datetime.now(), in hours
    heap,         \* the Automation objects ever constructed
    automations,  \* AutomationEngine.automations: its values, in dict order
    running,      \* AutomationEngine.running
    cur,          \* the coroutine that is running, or "none"
    loop,         \* start_automation_loop and its run_scheduled_automations
    api,          \* the caller of the public entry points
    frame,        \* the execute_automation call of each coroutine
    ret,          \* what the last call of the api coroutine returned
    handled       \* history: per object, the handler invocations that ended

vars == <<clock, heap, automations, running, cur, loop, api, frame, ret, handled>>

Tasks == {"loop", "api"}

\* A frame or call that holds no Automation.
NoAutomation == Automation(NoKey, MANUAL, ManualConfig, NoKey, FALSE)

\* execute_automation's locals: automation_id, automation (obj, a reference
\* into heap, 0 when the lookup found nothing), result.  invoked, stored and
\* store_ok record what the call did; pre is the Automation as the call
\* found it.  pc is the place the call is at:
\*   "call"       entered, nothing done yet
\*   "handler"    suspended in the handler's awaited HTTP call
\*   "update"     _run_action returned, stats not yet updated
\*   "store_call" stats updated, _store_result not yet called
\*   "store"      suspended in _store_result's awaited HTTP call
\*   "ret"        returned result;  "raise"  left by an exception
NoFrame ==
    [pc |-> "none", id |-> NoKey, obj |-> 0, result |-> NoResult,
     invoked |-> FALSE, stored |-> FALSE, store_ok |-> TRUE, pre |-> NoAutomation]

\* The api coroutine: the entry point it is in (pc), its arguments, the
\* comprehension's list still to visit (todo) and the results collected.
NoCall ==
    [pc |-> "idle", id |-> NoKey, event_type |-> NoKey, metrics |-> NoMetrics,
     todo |-> <<>>, results |-> <<>>]

\* What a call of the api coroutine gave back: the entry point and its
\* arguments, whether an exception reached the caller, and the value
\* returned (result of execute_automation; triggered and results of
\* handle_webhook and check_thresholds).
NoRet ==
    [op |-> "none", id |-> NoKey, event_type |-> NoKey, metrics |-> NoMetrics,
     raised |-> FALSE, result |-> NoResult, triggered |-> 0, results |-> <<>>]

\* ---------------------------------------------------------------- helpers
\* Position of key id in the dict, 0 when the dict does not hold it.
IndexOf(id) ==
    IF \E i \in 1..Len(automations) : heap[automations[i]].id = id
    THEN CHOOSE i \in 1..Len(automations) : heap[automations[i]].id = id
    ELSE 0

\* self.automations.get(automation_id): the object, 0 for None.
Get(id) == IF IndexOf(id) = 0 THEN 0 ELSE automations[IndexOf(id)]

\* register that always adds an entry.
register_Appends(o, id) == Append(automations, o)

\* self.automations[automation.id] = automation, for the new object o: an
\* existing key keeps its position, a new key goes last.
register(o, id) ==
    IF IndexOf(id) = 0
    THEN Append(automations, o)
    ELSE [automations EXCEPT ![IndexOf(id)] = o]

\* Resolve without the enabled check.
Resolve_NoEnabledCheck(o) ==
    IF o = 0 THEN "not_found" ELSE "run"

\* Resolve without the lookup check: the next statement reads
\* automation.enabled on None.
Resolve_NoLookupCheck(o) ==
    IF o = 0 THEN "attribute_error"
    ELSE IF ~heap[o].enabled THEN "disabled"
    ELSE "run"

\* execute_automation's two checks before the action runs.
Resolve(o) ==
    IF o = 0 THEN "not_found"
    ELSE IF ~heap[o].enabled THEN "disabled"
    ELSE "run"

\* _run_action's lookup of the handler: a remote handler, a static one, or
\* none.
HandlerKind(action) ==
    IF action \notin action_handlers THEN "unknown"
    ELSE IF action \in HttpActions THEN "http"
    ELSE "static"

\* What the awaited remote call of a handler can do: the service answers
\* with a success payload, answers with a body carrying an error, or the
\* call (or the decoding of the body) raises.
HandlerOutcomes == {"ok", "error", "raise"}

\* The update storing the time since the previous run.
UpdateStats_Elapsed(a, now) ==
    [a EXCEPT !.last_run = IF a.last_run = None THEN now ELSE now - a.last_run,
              !.run_count = @ + 1]

\* The update that also switches the automation off.
UpdateStats_Disables(a, now) ==
    [a EXCEPT !.last_run = now, !.run_count = @ + 1, !.enabled = FALSE]

\* "Update automation stats".
UpdateStats(a, now) == [a EXCEPT !.last_run = now, !.run_count = @ + 1]

\* _store_result without its except clause.
store_result_Propagates(ok) == IF ok THEN "ret" ELSE "raise"

\* _store_result: where execute_automation goes on when the awaited store
\* call succeeded (ok) or raised (~ok); the except clause swallows it.
store_result(ok) == "ret"

\* trigger_config.get("interval_hours", 24)
IntervalHours(a) ==
    IF a.trigger_config.interval_hours = None THEN 24
    ELSE a.trigger_config.interval_hours

\* The due test with now <= next_run.
IsDue_Late(a, now) ==
    IF a.last_run # None
    THEN ~(now <= a.last_run + IntervalHours(a))
    ELSE TRUE

\* The due test of run_scheduled_automations for a Scheduled, enabled
\* definition: a datetime is always truthy, so only None skips the test.
IsDue(a, now) ==
    IF a.last_run # None
    THEN ~(now < a.last_run + IntervalHours(a))
    ELSE TRUE

\* The filters without the test of the trigger.
ScheduledSelected_AnyTrigger(a, now) ==
    IF ~a.enabled THEN FALSE
    ELSE IsDue(a, now)

\* The filters of run_scheduled_automations: TRUE when the automation is
\* passed to execute_automation.
ScheduledSelected(a, now) ==
    IF a.trigger # SCHEDULED THEN FALSE
    ELSE IF ~a.enabled THEN FALSE
    ELSE IsDue(a, now)

\* The comprehension of handle_webhook.
MatchesEvent(a, event_type) ==
    a.trigger = EVENT /\ a.trigger_config.event = event_type

\* The comprehension with a test of enabled.
IsThreshold_Enabled(a) == a.trigger = THRESHOLD /\ a.enabled

\* The comprehension of check_thresholds.
IsThreshold(a) == a.trigger = THRESHOLD

\* The test of check_thresholds with > for >=.
MatchesThreshold_Strict(a, metrics) ==
    /\ a.trigger_config.metric \in DOMAIN metrics
    /\ metrics[a.trigger_config.metric] > a.trigger_config.threshold

\* The test of check_thresholds inside its loop.
MatchesThreshold(a, metrics) ==
    /\ a.trigger_config.metric \in DOMAIN metrics
    /\ metrics[a.trigger_config.metric] >= a.trigger_config.threshold

\* ------------------------------------------------------------------- init
\* The engine after __init__: the built-in definitions registered, the loop
\* not started, no call in progress.
Init ==
    /\ clock = 0
    /\ heap = DefaultAutomations
    /\ automations = [i \in 1..Len(DefaultAutomations) |-> i]
    /\ running = FALSE
    /\ cur = "none"
    /\ loop = [pc |-> "idle", now |-> 0, idx |-> 0, len |-> 0, cycles |-> 0]
    /\ api = [call |-> NoCall, ops |-> 0]
    /\ frame = [t \in Tasks |-> NoFrame]
    /\ ret = NoRet
    /\ handled = [i \in 1..Len(DefaultAutomations) |-> 0]

\* ------------------------------------------------------------ environment
\* Time passes; it may pass between any two statements.
Tick ==
    /\ clock + ClockStep <= MaxTicks * ClockStep
    /\ clock' = clock + ClockStep
    /\ UNCHANGED <<heap, automations, running, cur, loop, api, frame, ret, handled>>

\* The caller of the entry points calls register(automation).
Register ==
    /\ cur = "none"
    /\ api.call.pc = "idle"
    /\ api.ops < MaxOps
    /\ \E a \in RegisterInputs :
         /\ heap' = Append(heap, a)
         /\ automations' = register(Len(heap) + 1, a.id)
         /\ handled' = Append(handled, 0)
    /\ api' = [api EXCEPT !.ops = @ + 1]
    /\ ret' = NoRet
    /\ UNCHANGED <<clock, running, cur, loop, frame>>

\* stop(), called while every coroutine is suspended.
Stop ==
    /\ cur = "none"
    /\ running' = FALSE
    /\ UNCHANGED <<clock, heap, automations, cur, loop, api, frame, ret, handled>>

\* ----------------------------------------------------- execute_automation
\* Coroutine t enters execute_automation(id).
Enter(t, id) == [frame EXCEPT ![t] = [NoFrame EXCEPT !.pc = "call", !.id = id]]

\* Lines 200-212: the lookup, the enabled check and _run_action up to the
\* handler's first await.  A static handler returns without suspending.
ExecCall(t) ==
    /\ cur = t
    /\ frame[t].pc = "call"
    /\ LET o == Get(frame[t].id)
           f == [frame[t] EXCEPT !.obj = o,
                                 !.pre = IF o = 0 THEN NoAutomation ELSE heap[o]]
       IN CASE Resolve(o) = "not_found" ->
                 /\ frame' = [frame EXCEPT ![t] = [f EXCEPT !.pc = "ret", !.result = NotFound]]
                 /\ UNCHANGED <<cur, handled>>
            [] Resolve(o) = "disabled" ->
                 /\ frame' = [frame EXCEPT ![t] = [f EXCEPT !.pc = "ret", !.result = Disabled]]
                 /\ UNCHANGED <<cur, handled>>
            [] Resolve(o) = "run" /\ HandlerKind(heap[o].action) = "unknown" ->
                 /\ frame' = [frame EXCEPT ![t] =
                                [f EXCEPT !.pc = "update", !.result = UnknownAction]]
                 /\ UNCHANGED <<cur, handled>>
            [] Resolve(o) = "run" /\ HandlerKind(heap[o].action) = "static" ->
                 /\ frame' = [frame EXCEPT ![t] =
                                [f EXCEPT !.pc = "update", !.result = Ok, !.invoked = TRUE]]
                 /\ handled' = [handled EXCEPT ![o] = @ + 1]
                 /\ UNCHANGED cur
            [] Resolve(o) = "run" /\ HandlerKind(heap[o].action) = "http" ->
                 /\ frame' = [frame EXCEPT ![t] = [f EXCEPT !.pc = "handler", !.invoked = TRUE]]
                 /\ cur' = "none"
                 /\ UNCHANGED handled
            [] OTHER ->
                 \* automation.enabled read on None: AttributeError
                 /\ frame' = [frame EXCEPT ![t] = [f EXCEPT !.pc = "raise"]]
                 /\ UNCHANGED <<cur, handled>>
    /\ UNCHANGED <<clock, heap, automations, running, loop, api, ret>>

\* The awaited remote call of the handler finishes and the coroutine resumes.
ExecHandlerDone(t) ==
    /\ cur = "none"
    /\ frame[t].pc = "handler"
    /\ cur' = t
    /\ handled' = [handled EXCEPT ![frame[t].obj] = @ + 1]
    /\ \E out \in HandlerOutcomes :
         frame' = [frame EXCEPT ![t] =
                     CASE out = "ok" -> [@ EXCEPT !.pc = "update", !.result = Ok]
                       [] out = "error" -> [@ EXCEPT !.pc = "update", !.result = HandlerError]
                       [] out = "raise" -> [@ EXCEPT !.pc = "raise"]]
    /\ UNCHANGED <<clock, heap, automations, running, loop, api, ret>>

\* The store call made without the update before it.
ExecUpdate_Skipped(t) ==
    /\ cur = t
    /\ frame[t].pc = "update"
    /\ frame' = [frame EXCEPT ![t].pc = "store_call"]
    /\ UNCHANGED <<clock, heap, automations, running, cur, loop, api, ret, handled>>

\* The update writing the run_count read at the lookup, before the await.
ExecUpdate_Stale(t) ==
    /\ cur = t
    /\ frame[t].pc = "update"
    /\ heap' = [heap EXCEPT ![frame[t].obj] =
                  [@ EXCEPT !.last_run = clock,
                            !.run_count = frame[t].pre.run_count + 1]]
    /\ frame' = [frame EXCEPT ![t].pc = "store_call"]
    /\ UNCHANGED <<clock, automations, running, cur, loop, api, ret, handled>>

\* Lines 214-216: the stats of the object the call holds.
ExecUpdate(t) ==
    /\ cur = t
    /\ frame[t].pc = "update"
    /\ heap' = [heap EXCEPT ![frame[t].obj] = UpdateStats(@, clock)]
    /\ frame' = [frame EXCEPT ![t].pc = "store_call"]
    /\ UNCHANGED <<clock, automations, running, cur, loop, api, ret, handled>>

\* Line 219 up to the await of _store_result.
ExecStoreCall(t) ==
    /\ cur = t
    /\ frame[t].pc = "store_call"
    /\ frame' = [frame EXCEPT ![t].pc = "store", ![t].stored = TRUE]
    /\ cur' = "none"
    /\ UNCHANGED <<clock, heap, automations, running, loop, api, ret, handled>>

\* The awaited store call finishes (ok) or raises (~ok).
ExecStoreDone(t) ==
    /\ cur = "none"
    /\ frame[t].pc = "store"
    /\ cur' = t
    /\ \E ok \in BOOLEAN :
         frame' = [frame EXCEPT ![t].pc = store_result(ok), ![t].store_ok = ok]
    /\ UNCHANGED <<clock, heap, automations, running, loop, api, ret, handled>>

\* ------------------------------------------------- the scheduling loop
\* loop.pc: "idle" not started; "top" at the while test; "iter" in the for
\* loop of run_scheduled_automations, before next() of the dict iterator;
\* "exec" inside execute_automation; "sleep" in asyncio.sleep(300);
\* "exited" after the while loop.  now is the cycle's datetime.now(), idx
\* the iterator's position and len the dict's size when the iteration began.
LoopRest(pc) == [loop EXCEPT !.pc = pc, !.now = 0, !.idx = 0, !.len = 0]

\* start_automation_loop() is called: self.running = True.
LoopStart ==
    /\ cur = "none"
    /\ loop.pc = "idle"
    /\ running' = TRUE
    /\ loop' = [loop EXCEPT !.pc = "top"]
    /\ cur' = "loop"
    /\ UNCHANGED <<clock, heap, automations, api, frame, ret, handled>>

\* The while test of a loop that idles when running is cleared instead of
\* ending.
LoopTop_Idles ==
    /\ cur = "loop"
    /\ loop.pc = "top"
    /\ IF running
       THEN /\ loop' = [loop EXCEPT !.pc = "iter", !.now = clock, !.idx = 1,
                                    !.len = Len(automations), !.cycles = @ + 1]
            /\ UNCHANGED cur
       ELSE /\ loop' = LoopRest("sleep")
            /\ cur' = "none"
    /\ UNCHANGED <<clock, heap, automations, running, api, frame, ret, handled>>

\* while self.running: a cycle begins (now = datetime.now(), the iterator
\* is created), or the loop is left.
LoopTop ==
    /\ cur = "loop"
    /\ loop.pc = "top"
    /\ IF running
       THEN /\ loop' = [loop EXCEPT !.pc = "iter", !.now = clock, !.idx = 1,
                                    !.len = Len(automations), !.cycles = @ + 1]
            /\ UNCHANGED cur
       ELSE /\ loop' = LoopRest("exited")
            /\ cur' = "none"
    /\ UNCHANGED <<clock, heap, automations, running, api, frame, ret, handled>>

\* One turn of the for loop.  The dict iterator raises RuntimeError when the
\* dict changed size since the iteration began; the loop's except clause
\* catches it and the loop goes to sleep, as it does when the cycle is done.
LoopIter ==
    /\ cur = "loop"
    /\ loop.pc = "iter"
    /\ IF Len(automations) # loop.len \/ loop.idx > Len(automations)
       THEN /\ loop' = LoopRest("sleep")
            /\ cur' = "none"
            /\ UNCHANGED frame
       ELSE IF ScheduledSelected(heap[automations[loop.idx]], loop.now)
       THEN /\ loop' = [loop EXCEPT !.pc = "exec"]
            /\ frame' = Enter("loop", heap[automations[loop.idx]].id)
            /\ UNCHANGED cur
       ELSE /\ loop' = [loop EXCEPT !.idx = @ + 1]
            /\ UNCHANGED <<cur, frame>>
    /\ UNCHANGED <<clock, heap, automations, running, api, ret, handled>>

\* execute_automation returned to run_scheduled_automations: next turn.
LoopExecReturn ==
    /\ cur = "loop"
    /\ loop.pc = "exec"
    /\ frame["loop"].pc = "ret"
    /\ loop' = [loop EXCEPT !.pc = "iter", !.idx = @ + 1]
    /\ frame' = [frame EXCEPT !["loop"] = NoFrame]
    /\ UNCHANGED <<clock, heap, automations, running, cur, api, ret, handled>>

\* The loop without its except clause: the exception leaves the loop.
LoopExecRaise_Uncaught ==
    /\ cur = "loop"
    /\ loop.pc = "exec"
    /\ frame["loop"].pc = "raise"
    /\ loop' = LoopRest("exited")
    /\ frame' = [frame EXCEPT !["loop"] = NoFrame]
    /\ cur' = "none"
    /\ UNCHANGED <<clock, heap, automations, running, api, ret, handled>>

\* An exception left execute_automation: it ends the cycle and is caught by
\* the loop's except clause; the loop goes to sleep.
LoopExecRaise ==
    /\ cur = "loop"
    /\ loop.pc = "exec"
    /\ frame["loop"].pc = "raise"
    /\ loop' = LoopRest("sleep")
    /\ frame' = [frame EXCEPT !["loop"] = NoFrame]
    /\ cur' = "none"
    /\ UNCHANGED <<clock, heap, automations, running, api, ret, handled>>

\* asyncio.sleep(300) returns.
LoopWake ==
    /\ cur = "none"
    /\ loop.pc = "sleep"
    /\ loop.cycles < MaxCycles \/ ~running
    /\ loop' = [loop EXCEPT !.pc = "top"]
    /\ cur' = "loop"
    /\ UNCHANGED <<clock, heap, automations, running, api, frame, ret, handled>>

\* ------------------------------------------------------ the entry points
\* api.call.pc: "idle"; "execute" in a direct execute_automation call;
\* "webhook" in handle_webhook; "thresholds" in check_thresholds.
ApiReturn(r) ==
    /\ ret' = r
    /\ api' = [api EXCEPT !.call = NoCall]
    /\ frame' = [frame EXCEPT !["api"] = NoFrame]
    /\ cur' = "none"

\* A caller awaits execute_automation(id) (the CLI's run command).
ApiExecute ==
    /\ cur = "none"
    /\ api.call.pc = "idle"
    /\ api.ops < MaxOps
    /\ \E id \in ExecuteInputs :
         /\ api' = [call |-> [NoCall EXCEPT !.pc = "execute", !.id = id],
                    ops |-> api.ops + 1]
         /\ frame' = Enter("api", id)
    /\ cur' = "api"
    /\ ret' = NoRet
    /\ UNCHANGED <<clock, heap, automations, running, loop, handled>>

\* The direct call returns its result, or the exception reaches the caller.
ApiExecuteDone ==
    /\ cur = "api"
    /\ api.call.pc = "execute"
    /\ frame["api"].pc \in {"ret", "raise"}
    /\ ApiReturn([NoRet EXCEPT !.op = "execute", !.id = api.call.id,
                               !.raised = (frame["api"].pc = "raise"),
                               !.result = frame["api"].result])
    /\ UNCHANGED <<clock, heap, automations, running, loop, handled>>

\* handle_webhook(event_type, payload): the comprehension.
ApiWebhook ==
    /\ cur = "none"
    /\ api.call.pc = "idle"
    /\ api.ops < MaxOps
    /\ \E e \in EventInputs :
         api' = [call |-> [NoCall EXCEPT
                             !.pc = "webhook", !.event_type = e,
                             !.todo = SelectSeq(automations,
                                        LAMBDA o : MatchesEvent(heap[o], e))],
                 ops |-> api.ops + 1]
    /\ cur' = "api"
    /\ ret' = NoRet
    /\ UNCHANGED <<clock, heap, automations, running, loop, frame, handled>>

\* One turn of handle_webhook's for loop, or its return statement.
WebhookNext ==
    /\ cur = "api"
    /\ api.call.pc = "webhook"
    /\ frame["api"].pc = "none"
    /\ IF api.call.todo = <<>>
       THEN /\ ApiReturn([NoRet EXCEPT !.op = "webhook",
                                       !.event_type = api.call.event_type,
                                       !.triggered = Len(api.call.results),
                                       !.results = api.call.results])
       ELSE /\ frame' = Enter("api", heap[Head(api.call.todo)].id)
            /\ UNCHANGED <<api, cur, ret>>
    /\ UNCHANGED <<clock, heap, automations, running, loop, handled>>

\* execute_automation returned to handle_webhook: results.append(...).
WebhookExecReturn ==
    /\ cur = "api"
    /\ api.call.pc = "webhook"
    /\ frame["api"].pc = "ret"
    /\ api' = [api EXCEPT
                 !.call.results = Append(@, [automation_id |-> heap[Head(api.call.todo)].id,
                                             result |-> frame["api"].result]),
                 !.call.todo = Tail(@)]
    /\ frame' = [frame EXCEPT !["api"] = NoFrame]
    /\ UNCHANGED <<clock, heap, automations, running, cur, loop, ret, handled>>

\* check_thresholds(metrics): the comprehension.
ApiThresholds ==
    /\ cur = "none"
    /\ api.call.pc = "idle"
    /\ api.ops < MaxOps
    /\ \E m \in MetricsInputs :
         api' = [call |-> [NoCall EXCEPT
                             !.pc = "thresholds", !.metrics = m,
                             !.todo = SelectSeq(automations,
                                        LAMBDA o : IsThreshold(heap[o]))],
                 ops |-> api.ops + 1]
    /\ cur' = "api"
    /\ ret' = NoRet
    /\ UNCHANGED <<clock, heap, automations, running, loop, frame, handled>>

\* One turn of check_thresholds' for loop, or its return statement.
ThresholdNext ==
    /\ cur = "api"
    /\ api.call.pc = "thresholds"
    /\ frame["api"].pc = "none"
    /\ IF api.call.todo = <<>>
       THEN /\ ApiReturn([NoRet EXCEPT !.op = "thresholds",
                                       !.metrics = api.call.metrics,
                                       !.triggered = Len(api.call.results),
                                       !.results = api.call.results])
       ELSE IF MatchesThreshold(heap[Head(api.call.todo)], api.call.metrics)
       THEN /\ frame' = Enter("api", heap[Head(api.call.todo)].id)
            /\ UNCHANGED <<api, cur, ret>>
       ELSE /\ api' = [api EXCEPT !.call.todo = Tail(@)]
            /\ UNCHANGED <<frame, cur, ret>>
    /\ UNCHANGED <<clock, heap, automations, running, loop, handled>>

\* execute_automation returned to check_thresholds: triggered.append(...).
ThresholdExecReturn ==
    /\ cur = "api"
    /\ api.call.pc = "thresholds"
    /\ frame["api"].pc = "ret"
    /\ LET a == heap[Head(api.call.todo)] IN
       api' = [api EXCEPT
                 !.call.results =
                     Append(@, [automation_id |-> a.id,
                                metric |-> a.trigger_config.metric,
                                value |-> api.call.metrics[a.trigger_config.metric],
                                threshold |-> a.trigger_config.threshold,
                                result |-> frame["api"].result]),
                 !.call.todo = Tail(@)]
    /\ frame' = [frame EXCEPT !["api"] = NoFrame]
    /\ UNCHANGED <<clock, heap, automations, running, cur, loop, ret, handled>>

\* An exception left execute_automation inside handle_webhook or
\* check_thresholds: neither catches it, it reaches their caller.
BatchRaise ==
    /\ cur = "api"
    /\ api.call.pc \in {"webhook", "thresholds"}
    /\ frame["api"].pc = "raise"
    /\ ApiReturn([NoRet EXCEPT !.op = api.call.pc, !.raised = TRUE,
                               !.event_type = api.call.event_type,
                               !.metrics = api.call.metrics,
                               !.results = api.call.results])
    /\ UNCHANGED <<clock, heap, automations, running, loop, handled>>

\* -------------------------------------------------------- specification
\* The steps of one coroutine's execute_automation call.
Execute(t) ==
    \/ ExecCall(t)
    \/ ExecHandlerDone(t)
    \/ ExecUpdate(t)
    \/ ExecStoreCall(t)
    \/ ExecStoreDone(t)

\* The engine driven through its entry points (ProductAutomationAPI and the
\* CLI's run command): the loop is never started.
NextApi ==
    \/ Tick
    \/ Register
    \/ Execute("api")
    \/ ApiExecute
    \/ ApiExecuteDone
    \/ ApiWebhook
    \/ WebhookNext
    \/ WebhookExecReturn
    \/ ApiThresholds
    \/ ThresholdNext
    \/ ThresholdExecReturn
    \/ BatchRaise

\* The engine running its loop (the CLI's start command) until stop().
NextLoop ==
    \/ Tick
    \/ Stop
    \/ Execute("loop")
    \/ LoopStart
    \/ LoopTop
    \/ LoopIter
    \/ LoopExecReturn
    \/ LoopExecRaise
    \/ LoopWake

\* Both on one engine.
Next == NextApi \/ NextLoop

SpecApi == Init /\ [][NextApi]_vars
SpecLoop == Init /\ [][NextLoop]_vars
Spec == Init /\ [][Next]_vars

\* The loop and the entry points on one engine, for the Manual definitions:
\* the direct calls and the registrations are those of Manual definitions
\* (saas_feature_builder, custom_report), with one call, one cycle and one
\* tick less than the bounds allow.
ManualScope ==
    /\ api.call.id \in {NoKey, "saas_feature_builder", "custom_report"}
    /\ \A o \in (Len(DefaultAutomations) + 1)..Len(heap) : heap[o].trigger = MANUAL
    /\ api.ops <= MaxOps - 1
    /\ loop.cycles <= MaxCycles - 1
    /\ clock <= (MaxTicks - 1) * ClockStep

NextManual == Next /\ ManualScope'
SpecManual == Init /\ [][NextManual]_vars

\* The loop and direct calls on one engine for one id, trend_detection,
\* which the loop executes too: the calls interleave at the handler's and
\* the store's awaited HTTP calls.
SharedScope == api.call.id \in {NoKey, "trend_detection"}

NextShared ==
    /\ \/ NextLoop
       \/ Execute("api")
       \/ ApiExecute
       \/ ApiExecuteDone
    /\ SharedScope'

SpecShared == Init /\ [][NextShared]_vars

\* The steps of the loop's coroutine.  The event loop runs a coroutine that
\* is ready, so its own statements are taken; that the awaited calls (the
\* handler's and the store's HTTP call, asyncio.sleep) return is what the
\* liveness claims assume.
LoopProgress ==
    \/ Execute("loop")
    \/ LoopTop
    \/ LoopIter
    \/ LoopExecReturn
    \/ LoopExecRaise
    \/ LoopWake

\* The loop under that assumption.  stop(), the start of the loop and the
\* passing of time are not required to happen.
SpecLoopFair == Init /\ [][NextLoop]_vars /\ WF_vars(LoopProgress)

\* ------------------------------------------------------------ properties
\* The entry in the dict that a finished or running call of coroutine t
\* resolved, as the call found it and as it is now.
Before(t) == frame[t].pre
Now(t) == heap[frame[t].obj]

\* C1: when the handler invoked by execute fails, execute does not raise;
\* it returns a result, and last_run and run_count of the id are updated
\* (run_count + 1).
C1_HandlerFailureIsReturned ==
    \A t \in Tasks :
        frame[t].invoked =>
            /\ frame[t].pc # "raise"
            /\ frame[t].pc = "ret" =>
                 /\ Now(t).run_count = Before(t).run_count + 1
                 /\ Now(t).last_run # None

\* C2: execute on an enabled automation whose action has no handler returns
\* UnknownAction with last_run and run_count unchanged and no store call.
C2_UnknownActionLeavesStats ==
    \A t \in Tasks :
        frame[t].result = UnknownAction =>
            /\ Now(t).last_run = Before(t).last_run
            /\ Now(t).run_count = Before(t).run_count
            /\ ~frame[t].stored

\* C3: a batch (handle_webhook, check_thresholds) is never left by a failing
\* handler while matching automations of the batch are still to be executed.
C3_BatchRunsToCompletion ==
    (api.call.pc \in {"webhook", "thresholds"} /\ frame["api"].pc = "raise") =>
        LET rest == Tail(api.call.todo) IN
        \A i \in 1..Len(rest) :
            /\ api.call.pc # "webhook"
            /\ ~MatchesThreshold(heap[rest[i]], api.call.metrics)

\* C4: handle_webhook returns one result for each enabled Event definition
\* whose event equals event_type, in registry order, and triggered is their
\* number; a disabled matching definition contributes nothing.
C4_WebhookDispatchesEnabledMatches ==
    (ret.op = "webhook" /\ ~ret.raised) =>
        LET expected ==
              SelectSeq(automations,
                        LAMBDA o : /\ heap[o].enabled
                                   /\ heap[o].trigger = EVENT
                                   /\ heap[o].trigger_config.event = ret.event_type)
        IN /\ ret.triggered = Len(expected)
           /\ Len(ret.results) = Len(expected)
           /\ \A i \in 1..Len(expected) :
                ret.results[i].automation_id = heap[expected[i]].id

\* C5: whenever no call is in progress, run_count of every registered
\* automation is the number of dispatches for it whose handler was invoked.
C5_RunCountIsHandlerInvocations ==
    (cur = "none" /\ \A t \in Tasks : frame[t].pc = "none") =>
        \A i \in 1..Len(automations) :
            heap[automations[i]].run_count = handled[automations[i]]

\* C6: the step of execute on a registered automation that is disabled
\* returns Disabled, invokes no handler, makes no store call and changes no
\* Automation.
C6_DisabledIsRejected ==
    [][\A t \in Tasks :
         (/\ frame[t].pc = "call"
          /\ frame'[t] # frame[t]
          /\ Get(frame[t].id) # 0
          /\ ~heap[Get(frame[t].id)].enabled)
         => /\ frame'[t].pc = "ret"
            /\ frame'[t].result = Disabled
            /\ ~frame'[t].invoked
            /\ ~frame'[t].stored
            /\ heap' = heap
            /\ handled' = handled]_vars

C6_Witness ==
    /\ api.call.pc = "execute"
    /\ frame["api"].pc = "ret"
    /\ frame["api"].result = Disabled

\* C7: the step of execute on an id the registry does not hold returns
\* NotFound, invokes no handler, makes no store call and leaves the registry
\* (the dict and every Automation) unchanged.
C7_UnknownIdIsRejected ==
    [][\A t \in Tasks :
         (/\ frame[t].pc = "call"
          /\ frame'[t] # frame[t]
          /\ \A i \in 1..Len(automations) : heap[automations[i]].id # frame[t].id)
         => /\ frame'[t].pc = "ret"
            /\ frame'[t].result = NotFound
            /\ ~frame'[t].invoked
            /\ ~frame'[t].stored
            /\ automations' = automations
            /\ heap' = heap
            /\ handled' = handled]_vars

C7_Witness ==
    /\ api.call.pc = "execute"
    /\ frame["api"].pc = "ret"
    /\ frame["api"].result = NotFound

\* C8: when the store call of execute ends, by success or by failure,
\* execute goes on to return the handler's result: no exception, the same
\* result, the same last_run and run_count.
C8_StoreFailureIsInvisible ==
    [][\A t \in Tasks :
         (frame[t].pc = "store" /\ frame'[t].pc # "store")
         => /\ frame'[t].pc = "ret"
            /\ frame'[t].result = frame[t].result
            /\ heap' = heap]_vars

C8_Witness ==
    /\ api.call.pc = "execute"
    /\ frame["api"].pc = "ret"
    /\ frame["api"].stored
    /\ ~frame["api"].store_ok
    /\ frame["api"].result = Ok
    /\ Now("api").run_count = Before("api").run_count + 1

\* C9: when a cycle reaches an enabled Scheduled definition with
\* interval_hours = h, it executes it if and only if last_run is None or
\* now >= last_run + h.
C9_ScheduledDue ==
    [][(/\ loop.pc = "iter"
        /\ loop' # loop
        /\ Len(automations) = loop.len
        /\ loop.idx <= Len(automations)
        /\ heap[automations[loop.idx]].trigger = SCHEDULED
        /\ heap[automations[loop.idx]].enabled)
       => LET a == heap[automations[loop.idx]]
              h == a.trigger_config.interval_hours
          IN (loop'.pc = "exec" /\ frame'["loop"].pc = "call" /\ frame'["loop"].id = a.id)
             <=> (a.last_run = None \/ loop.now >= a.last_run + h)]_vars

\* A second execution starts exactly at last_run + h.
C9_Witness ==
    /\ loop.pc = "exec"
    /\ frame["loop"].pc = "call"
    /\ heap[automations[loop.idx]].last_run # None
    /\ loop.now = heap[automations[loop.idx]].last_run
                  + heap[automations[loop.idx]].trigger_config.interval_hours

\* C10 (the test): when check_thresholds reaches a Threshold definition, it
\* passes it to execute if and only if metrics holds its metric with a value
\* >= its threshold; otherwise it goes on without a result for it.
C10_ThresholdDecision ==
    [][(/\ api.call.pc = "thresholds"
        /\ frame["api"].pc = "none"
        /\ api.call.todo # <<>>
        /\ <<api, frame>>' # <<api, frame>>)
       => LET a == heap[Head(api.call.todo)]
              m == api.call.metrics
          IN IF /\ a.trigger_config.metric \in DOMAIN m
                /\ m[a.trigger_config.metric] >= a.trigger_config.threshold
             THEN /\ frame'["api"].pc = "call"
                  /\ frame'["api"].id = a.id
             ELSE /\ frame'["api"].pc = "none"
                  /\ api'.call.todo = Tail(api.call.todo)
                  /\ api'.call.results = api.call.results]_vars

\* C10 (the count): what check_thresholds returns names exactly the
\* Threshold definitions whose metric is reported with a value >= the
\* threshold, and triggered is their number.
C10_ThresholdCount ==
    (ret.op = "thresholds" /\ ~ret.raised) =>
        LET expected ==
              SelectSeq(automations,
                        LAMBDA o :
                          /\ heap[o].trigger = THRESHOLD
                          /\ heap[o].trigger_config.metric \in DOMAIN ret.metrics
                          /\ ret.metrics[heap[o].trigger_config.metric]
                               >= heap[o].trigger_config.threshold)
        IN /\ ret.triggered = Len(expected)
           /\ Len(ret.results) = Len(expected)
           /\ \A i \in 1..Len(expected) :
                /\ ret.results[i].automation_id = heap[expected[i]].id
                /\ ret.results[i].value >= ret.results[i].threshold

\* C10: check_thresholds triggers a Threshold definition if and only if
\* metrics contains its metric with a value >= its threshold (equal
\* triggers; below or missing does not), and the returned triggered count
\* is the number of definitions triggered.
C10_ThresholdTrigger == C10_ThresholdDecision /\ []C10_ThresholdCount

\* Both values equal to the thresholds: both definitions triggered.
C10_Witness ==
    /\ ret.op = "thresholds"
    /\ ~ret.raised
    /\ ret.triggered = 2
    /\ \A i \in 1..2 : ret.results[i].value = ret.results[i].threshold

\* The object given to the last register(definition) call for id (the
\* built-in definitions count as the first calls), 0 when there was none.
Latest(id) ==
    LET S == {o \in 1..Len(heap) : heap[o].id = id}
    IN IF S = {} THEN 0 ELSE CHOOSE o \in S : \A p \in S : p <= o

\* C11 (the registry): the dict holds at most one entry for an id, and the
\* lookup of an id gives the definition registered last under it.
C11_LastRegistrationWins ==
    \A o \in 1..Len(heap) :
        /\ Cardinality({i \in 1..Len(automations) :
                          heap[automations[i]].id = heap[o].id}) = 1
        /\ Get(heap[o].id) = Latest(heap[o].id)

\* C11 (the step): register(definition) with an id already registered keeps
\* the size of the dict and every other entry, puts the new definition at
\* the id's entry, and the entry's last_run and run_count are the new
\* definition's.
C11_RegisterStep ==
    [][(/\ Len(heap') = Len(heap) + 1
        /\ IndexOf(heap'[Len(heap')].id) # 0)
       => LET new == Len(heap')
              i == IndexOf(heap'[new].id)
          IN /\ heap'[new] \in RegisterInputs
             /\ Len(automations') = Len(automations)
             /\ automations'[i] = new
             /\ \A j \in 1..Len(automations) :
                  j # i => automations'[j] = automations[j]
             /\ \A o \in 1..Len(heap) : heap'[o] = heap[o]
             /\ heap'[automations'[i]].last_run = heap'[new].last_run
             /\ heap'[automations'[i]].run_count = heap'[new].run_count]_vars

\* C11: register(definition) with an id that is already registered replaces
\* the prior definition: one entry for the id, every later lookup gives the
\* new definition, and last_run and run_count are those of the new
\* definition, not those the old one accumulated.
C11_RegisterReplaces == C11_RegisterStep /\ []C11_LastRegistrationWins

\* The old trend_detection ran, the definition was registered again, and
\* the lookup gives the new one with its own statistics.
C11_Witness ==
    /\ heap[1].run_count = 1
    /\ Get("trend_detection") > Len(DefaultAutomations)
    /\ heap[Get("trend_detection")].run_count = 0
    /\ heap[Get("trend_detection")].last_run = None
    /\ Len(automations) = Len(DefaultAutomations)

\* C12: for every automation id (every entry of the dict: an id keeps its
\* entry for good), over every operation, last_run of the id once set never
\* becomes None again and never moves to an earlier time.
C12_LastRunMonotone ==
    [][\A i \in 1..Len(automations) :
         heap[automations[i]].last_run # None
         => /\ heap'[automations'[i]].last_run # None
            /\ heap'[automations'[i]].last_run >= heap[automations[i]].last_run]_vars

\* C12 (amended): last_run of an id once set never becomes None again and
\* never moves to an earlier time over every operation except a
\* register(definition) of the id again, which puts the new definition's
\* last_run in its place; last_run of every Automation object is
\* non-decreasing.
C12_LastRunMonotoneUnlessRegistered ==
    [][/\ \A i \in 1..Len(automations) :
            (automations'[i] = automations[i] /\ heap[automations[i]].last_run # None)
            => /\ heap'[automations'[i]].last_run # None
               /\ heap'[automations'[i]].last_run >= heap[automations[i]].last_run
       /\ \A o \in 1..Len(heap) :
            heap[o].last_run # None
            => /\ heap'[o].last_run # None
               /\ heap'[o].last_run >= heap[o].last_run]_vars

\* A definition that ran, and ran again later: last_run moved forward.
C12_Witness ==
    \E o \in 1..Len(heap) :
        /\ heap[o].run_count = 2
        /\ heap[o].last_run > 0
        /\ \E t \in Tasks : frame[t].obj = o /\ frame[t].pre.last_run = 0

\* C13: the loop is left only at the while test with the running flag
\* cleared, never by an error in a cycle; and a cycle during which stop()
\* was called is not cut short: when it ends, no due definition after the
\* place it reached is left unexecuted.
C13_StopIsDeferred ==
    [][/\ (loop.pc # "exited" /\ loop'.pc = "exited")
          => (loop.pc = "top" /\ ~running)
       /\ (~running /\ loop.pc \in {"iter", "exec"} /\ loop'.pc \notin {"iter", "exec"})
          => /\ loop'.pc = "sleep"
             /\ \A j \in (loop.idx + 1)..Len(automations) :
                  ~ScheduledSelected(heap[automations[j]], loop.now)]_vars

\* C14: a cycle passes to execute, in registry order, the Scheduled
\* definitions that are enabled and due and no other; and it ends only when
\* no due definition is left after the place it reached, whatever the
\* handlers of the definitions before did.
C14_CycleRunsEveryDue ==
    [][/\ (loop.pc = "iter" /\ loop'.pc = "exec")
          => /\ ScheduledSelected(heap[automations[loop.idx]], loop.now)
             /\ frame'["loop"].id = heap[automations[loop.idx]].id
             /\ loop'.idx = loop.idx
       /\ (loop.pc \in {"iter", "exec"} /\ loop'.pc \in {"iter", "exec"})
          => loop'.idx \in {loop.idx, loop.idx + 1}
       /\ (loop.pc \in {"iter", "exec"} /\ loop'.pc \notin {"iter", "exec"})
          => \A j \in (loop.idx + 1)..Len(automations) :
               ~ScheduledSelected(heap[automations[j]], loop.now)]_vars

\* C15: an exception that leaves a cycle is caught in the loop: the loop is
\* not left, it goes to the same sleep as after a cycle that ended normally,
\* and after the sleep it is at the while test, which starts the next cycle
\* if running is still set.
C15_CycleErrorIsCaught ==
    [][/\ (loop.pc = "exec" /\ frame["loop"].pc = "raise" /\ loop' # loop)
          => /\ loop' = LoopRest("sleep")
             /\ running' = running
       /\ (loop.pc = "iter" /\ loop'.pc \notin {"iter", "exec"})
          => loop' = LoopRest("sleep")
       /\ (loop.pc = "sleep" /\ loop' # loop)
          => loop'.pc = "top"
       /\ (loop.pc = "top" /\ loop' # loop /\ running)
          => /\ loop'.pc = "iter"
             /\ loop'.cycles = loop.cycles + 1]_vars

\* The handler of trend_detection raised in the first cycle, and the loop
\* is in its second cycle.
C15_Witness ==
    /\ running
    /\ loop.cycles = 2
    /\ loop.pc = "iter"
    /\ handled[1] = 1
    /\ heap[1].run_count = 0

\* C16 (the steps): in one execute call no step up to the return of the
\* handler writes the statistics; they are written in one step, which
\* follows the return of the handler and leads to the store call; the store
\* call is made only from there.
C16_StepOrder ==
    [][\A t \in Tasks :
         /\ (frame[t].pc \in {"call", "handler"} /\ frame'[t] # frame[t])
            => heap' = heap
         /\ (frame[t].pc # "update" /\ frame'[t].pc = "update")
            => frame[t].pc \in {"call", "handler"}
         /\ (frame[t].pc = "update" /\ frame'[t] # frame[t])
            => /\ frame'[t].pc = "store_call"
               /\ ~frame'[t].stored
               /\ heap'[frame[t].obj].last_run = clock
               /\ heap'[frame[t].obj].run_count = heap[frame[t].obj].run_count + 1
         /\ (frame[t].pc = "store_call" /\ frame'[t] # frame[t])
            => /\ frame'[t].pc = "store"
               /\ frame'[t].stored
               /\ heap' = heap
         /\ (~frame[t].stored /\ frame'[t].stored)
            => frame[t].pc = "store_call"]_vars

\* C16 (the states): once the store call is made the statistics of the
\* Automation are the updated ones.
C16_StatsAtStore ==
    \A t \in Tasks :
        frame[t].stored
        => /\ Now(t).last_run # None
           /\ Now(t).run_count >= Before(t).run_count + 1

\* C16: within one execute call the handler returns, then last_run and
\* run_count are updated, then the store call is made: the store call never
\* finds the statistics not yet updated, and they are never updated before
\* the handler returned.
C16_ExecuteOrder == C16_StepOrder /\ []C16_StatsAtStore

\* A call whose remote handler returned is suspended in its store call.
C16_Witness ==
    /\ frame["api"].pc = "store"
    /\ frame["api"].invoked
    /\ Before("api").action \in HttpActions
    /\ Now("api").last_run = clock
    /\ Now("api").run_count = Before("api").run_count + 1

\* C17: once the loop has been started and stop() has then been called, the
\* loop eventually terminates (every awaited call returning): it ends the
\* cycle or the sleep it is in and leaves at the while test.
C17_StopTerminatesLoop ==
    (loop.pc # "idle" /\ ~running) ~> (loop.pc = "exited")

\* stop() was called during the first cycle's second execution, and the
\* loop has ended after that cycle.
C17_Witness ==
    /\ loop.pc = "exited"
    /\ ~running
    /\ loop.cycles = 1
    /\ heap[5].run_count = 1

\* C18: execute is entered for a Manual definition only by a direct call,
\* never by a cycle, handle_webhook or check_thresholds; and last_run and
\* run_count of a Manual definition change only in the update step of a
\* direct call.
C18_ManualOnlyDirect ==
    [][/\ \A t \in Tasks :
            (/\ frame[t].pc = "none"
             /\ frame'[t].pc = "call"
             /\ Get(frame'[t].id) # 0
             /\ heap[Get(frame'[t].id)].trigger = MANUAL)
            => (t = "api" /\ api'.call.pc = "execute")
       /\ \A o \in 1..Len(heap) :
            (heap[o].trigger = MANUAL /\ heap'[o] # heap[o])
            => /\ api.call.pc = "execute"
               /\ frame["api"].pc = "update"
               /\ frame["api"].obj = o]_vars

\* A cycle ran to its end and a webhook was dispatched; the Manual
\* definition saas_feature_builder has not run.
C18_Witness ==
    /\ loop.pc = "sleep"
    /\ heap[1].run_count = 1
    /\ heap[5].run_count = 1
    /\ ret.op = "webhook"
    /\ ret.triggered = 1
    /\ heap[3].trigger = MANUAL
    /\ heap[3].run_count = 0
    /\ heap[3].last_run = None

\* C19: every check_thresholds call executes every enabled Threshold
\* definition whose metric is reported with a value >= its threshold,
\* whenever it last ran: when the call ends, each of them has been passed to
\* execute in this call (so n such calls execute it n times).
C19_EveryCheckTriggers ==
    [][(api.call.pc = "thresholds" /\ api'.call.pc = "idle")
       => \A i \in 1..Len(automations) :
            LET a == heap[automations[i]]
                m == api.call.metrics
            IN (/\ a.trigger = THRESHOLD
                /\ a.enabled
                /\ a.trigger_config.metric \in DOMAIN m
                /\ m[a.trigger_config.metric] >= a.trigger_config.threshold)
               => \/ \E k \in 1..Len(api.call.results) :
                       api.call.results[k].automation_id = a.id
                  \/ (frame["api"].obj = automations[i] /\ frame["api"].invoked)]_vars

\* C20: the Automations of the registry are written only by the update step
\* of an execute call, which writes last_run and run_count of the Automation
\* the call looked up under its id and nothing else: no other field of it,
\* no other Automation, not the dict.  Every other step of execute and every
\* step of the cycle, handle_webhook and check_thresholds writes none.
C20_ExecuteWritesOnlyStats ==
    [][/\ automations' # automations => Len(heap') = Len(heap) + 1
       /\ \A o \in 1..Len(heap) :
            heap'[o] # heap[o]
            => /\ \E t \in Tasks :
                    /\ frame[t].pc = "update"
                    /\ frame'[t].pc = "store_call"
                    /\ frame[t].obj = o
                    /\ heap[o].id = frame[t].id
               /\ heap'[o] = [heap[o] EXCEPT !.last_run = heap'[o].last_run,
                                             !.run_count = heap'[o].run_count]
               /\ \A p \in 1..Len(heap) : p # o => heap'[p] = heap[p]
               /\ automations' = automations
       /\ (\A t \in Tasks : frame[t].pc # "update")
            => \A o \in 1..Len(heap) : heap'[o] = heap[o]]_vars

\* A cycle's execute call has completed: of the Automation it ran, only
\* last_run and run_count differ from what the call found.
C20_Witness ==
    /\ frame["loop"].pc = "ret"
    /\ frame["loop"].invoked
    /\ Now("loop").run_count = Before("loop").run_count + 1
    /\ Now("loop").last_run # Before("loop").last_run
    /\ Now("loop") = [Before("loop") EXCEPT !.last_run = Now("loop").last_run,
                                            !.run_count = Now("loop").run_count]

\* A call that has made its update and has not yet returned to its caller.
Updated(t) == frame[t].pc \in {"store_call", "store", "ret"}

\* C21 (the steps): a call whose handler returned goes on to the update;
\* the update is entered only by a call whose handler returned; it adds one
\* to the run_count the Automation has at that moment, whatever the other
\* calls did since the lookup; and no other step writes run_count.
C21_IncrementIsAtomic ==
    [][/\ \A t \in Tasks :
            /\ (frame[t].pc = "handler" /\ frame'[t].pc \notin {"handler", "raise"})
               => frame'[t].pc = "update"
            /\ (frame[t].pc # "update" /\ frame'[t].pc = "update")
               => frame'[t].invoked
            /\ (frame[t].pc = "update" /\ frame'[t] # frame[t])
               => heap'[frame[t].obj].run_count = heap[frame[t].obj].run_count + 1
       /\ \A o \in 1..Len(heap) :
            heap'[o].run_count # heap[o].run_count
            => \E t \in Tasks : /\ frame[t].pc = "update"
                                /\ frame[t].obj = o
                                /\ frame'[t].pc = "store_call"]_vars

\* C21 (the states): when the call of the loop and the direct call are on
\* the same Automation and both have made their update, run_count counts
\* both.
C21_BothCounted ==
    (/\ frame["loop"].obj = frame["api"].obj
     /\ Updated("loop")
     /\ Updated("api"))
    => LET lo == Before("loop").run_count
           ap == Before("api").run_count
       IN Now("api").run_count >= (IF lo <= ap THEN lo ELSE ap) + 2

\* C21: when execute calls on the same id from the loop and from a direct
\* call are in flight at once, interleaving at the handler's and the store's
\* suspension points, no update is lost: run_count grows by one for each of
\* the calls whose handler returned.
C21_NoLostUpdate == C21_IncrementIsAtomic /\ []C21_BothCounted

\* Both calls looked trend_detection up before either made its update, and
\* both have made it.
C21_Witness ==
    /\ frame["loop"].obj = frame["api"].obj
    /\ frame["loop"].pc = "store"
    /\ frame["api"].pc = "ret"
    /\ Before("loop").run_count = Before("api").run_count
    /\ Now("api").run_count = Before("api").run_count + 2

\* C22 (the start): the loop passes a Scheduled definition that ran before
\* to execute no earlier than its last_run plus its interval.
C22_StartsAfterInterval ==
    [][(loop.pc = "iter" /\ loop'.pc = "exec")
       => LET a == heap[automations[loop.idx]]
          IN a.last_run # None => clock >= a.last_run + IntervalHours(a)]_vars

\* C22 (the separation): with the loop as the only caller, the handler
\* invocations of a Scheduled definition are at least its interval apart:
\* n invocations take at least (n - 1) intervals of time.
C22_InvocationsApart ==
    \A i \in 1..Len(automations) :
        LET o == automations[i]
        IN (heap[o].trigger = SCHEDULED /\ handled[o] >= 2)
           => clock >= (handled[o] - 1) * IntervalHours(heap[o])

\* C22: with the scheduling loop as the only caller of execute and a
\* non-decreasing clock, two consecutive executions of a Scheduled
\* definition are separated by at least its interval_hours: the next handler
\* invocation starts no earlier than the previous execution's last_run plus
\* interval_hours.
C22_ScheduledSeparation == C22_StartsAfterInterval /\ []C22_InvocationsApart

\* C23 (the steps): check_thresholds passes a disabled Threshold definition
\* whose metric value is >= its threshold to execute, and appends what
\* execute returned, the Disabled error, to its results; no handler was
\* invoked for it and its Automation is as the call found it.
C23_DisabledIsDispatched ==
    [][/\ (/\ api.call.pc = "thresholds"
           /\ frame["api"].pc = "none"
           /\ api.call.todo # <<>>
           /\ <<api, frame>>' # <<api, frame>>
           /\ ~heap[Head(api.call.todo)].enabled
           /\ heap[Head(api.call.todo)].trigger_config.metric \in DOMAIN api.call.metrics
           /\ api.call.metrics[heap[Head(api.call.todo)].trigger_config.metric]
                >= heap[Head(api.call.todo)].trigger_config.threshold)
          => /\ frame'["api"].pc = "call"
             /\ frame'["api"].id = heap[Head(api.call.todo)].id
       /\ (/\ api.call.pc = "thresholds"
           /\ frame["api"].pc = "ret"
           /\ frame["api"].result = Disabled
           /\ api' # api)
          => /\ Len(api'.call.results) = Len(api.call.results) + 1
             /\ api'.call.results[Len(api'.call.results)].automation_id = frame["api"].id
             /\ api'.call.results[Len(api'.call.results)].result = Disabled
             /\ ~frame["api"].invoked
             /\ ~frame["api"].stored
             /\ Now("api") = Before("api")
             /\ heap' = heap
             /\ handled' = handled]_vars

\* C23 (the result): in what check_thresholds returns, every disabled
\* Threshold definition whose metric is reported with a value >= its
\* threshold has an entry, with the Disabled error as its result, and
\* triggered counts the entries.
C23_DisabledIsCounted ==
    (ret.op = "thresholds" /\ ~ret.raised) =>
        /\ ret.triggered = Len(ret.results)
        /\ \A i \in 1..Len(automations) :
             LET a == heap[automations[i]]
             IN (/\ a.trigger = THRESHOLD
                 /\ ~a.enabled
                 /\ a.trigger_config.metric \in DOMAIN ret.metrics
                 /\ ret.metrics[a.trigger_config.metric] >= a.trigger_config.threshold)
                => \E k \in 1..Len(ret.results) :
                     /\ ret.results[k].automation_id = a.id
                     /\ ret.results[k].result = Disabled

\* C23: check_thresholds does not filter on enabled: a disabled Threshold
\* definition whose metric value is >= its threshold is passed to execute,
\* is counted in triggered and is in the results with the Disabled error,
\* while its handler is not invoked and its last_run and run_count stay
\* unchanged.
C23_ThresholdIgnoresEnabled == C23_DisabledIsDispatched /\ []C23_DisabledIsCounted

\* check_thresholds returned with the disabled product_cloner among its
\* results, which has not run.
C23_Witness ==
    /\ ret.op = "thresholds"
    /\ ~ret.raised
    /\ ret.triggered >= 1
    /\ \E k \in 1..Len(ret.results) :
         /\ ret.results[k].automation_id = "product_cloner"
         /\ ret.results[k].result = Disabled
    /\ ~heap[Get("product_cloner")].enabled
    /\ heap[Get("product_cloner")].run_count = 0
    /\ heap[Get("product_cloner")].last_run = None

=============================================================================
